---- MODULE Spec2Model ----
(***************************************************************************)
(* Model of the neuronova-pathfinder front end: the request hooks of       *)
(* hooks/useApi (src/unnamed/part_002), the two Dashboard page definitions *)
(* of src/src/pages/Dashboard.tsx and the filter/sort pipeline, the risk   *)
(* evaluator the specification describes, the Actions page                 *)
(* (src/src/pages/Actions.tsx), the Upload page (src/unnamed/part_001) and *)
(* ApiService.fetchWithErrorHandling (src/unnamed/part_000).               *)
(***************************************************************************)
EXTENDS Integers, Sequences, FiniteSets, TLC

VARIABLES
    hook,        \* the hook instance the behaviour is about
    state,       \* ApiState of that instance: [data, loading, error]
    pending,     \* calls issued through the instance and not yet resolved
    issued,      \* number of backend requests issued so far
    toasts,      \* notifications shown so far (sonner toast.*)
    last,        \* history: the last call that resolved, and how
    variant,     \* which Dashboard definition is mounted (1 or 2), 0 = none
    mounted,     \* the Dashboard mount effect has run
    students,    \* Dashboard: useState<Student[]>
    loading2,    \* Dashboard (second definition): useState(false)
    error2,      \* Dashboard (second definition): useState(false)
    clicks,      \* history: number of Refresh clicks made by the user
    searchTerm,  \* Dashboard: useState('')
    classFilter, \* Dashboard: useState('all')
    riskFilter,  \* Dashboard: useState('all')
    filteredStudents, \* Dashboard: the visible subset computed on render
    record,      \* risk rules: the student record being assessed
    assessment,  \* risk rules: the RiskAssessment derived from record
    actions,     \* Actions: useState<Action[]>(initialActions)
    filter,      \* Actions: useState('all')
    showAddDialog, \* Actions: useState(false)
    newAction,   \* Actions: the form of the add dialog
    notice,      \* Actions: the toast shown last
    clock,       \* the value Date.now() returns
    files,       \* Upload: useState<UploadFile[]>([])
    timers,      \* Upload: the simulateUpload invocations, with their closures
    fetched      \* ApiService: the last fetchWithErrorHandling call and its outcome

vars == <<hook, state, pending, issued, toasts, last, variant, mounted,
          students, loading2, error2, clicks, searchTerm, classFilter,
          riskFilter, filteredStudents, record, assessment, actions, filter,
          showAddDialog, newAction, notice, clock, files, timers, fetched>>

hookVars == <<hook, state, pending, issued, toasts, last>>
dashVars == <<variant, mounted, students, loading2, error2, clicks>>
queryVars == <<searchTerm, classFilter, riskFilter, filteredStudents>>
riskVars == <<record, assessment>>
actionVars == <<actions, filter, showAddDialog, newAction, notice>>
clockVars == <<clock>>
uploadVars == <<files, timers>>
fetchVars == <<fetched>>
pageVars == <<riskVars, actionVars, clockVars, uploadVars, fetchVars>>

\* the pages and the rule evaluator a behaviour is not about stay as they are
NoRecord == [attendance |-> 0, score |-> 0, feeStatus |-> "none", overdue |-> 0]
NoAssessment == [riskLevel |-> "none"]
EmptyForm == [studentName |-> "", actionType |-> "counseling", description |-> "", assignedTo |-> ""]

RiskIdle == record = NoRecord /\ assessment = NoAssessment
ActionsIdle ==
    /\ actions = <<>>
    /\ filter = "all"
    /\ showAddDialog = FALSE
    /\ newAction = EmptyForm
    /\ notice = "none"
ClockIdle == clock = 0
UploadIdle == files = <<>> /\ timers = <<>>
NoFetch == [endpoint |-> "none"]
FetchIdle == fetched = NoFetch

----------------------------------------------------------------------------
(* Bounds *)

\* calls made on one hook instance in one behaviour
MaxCalls == 2

\* dashboard requests issued in one behaviour
MaxFetches == 3

\* length of a fetched or held student collection
MaxStudents == 3

----------------------------------------------------------------------------
(* Values *)

NULL == "null"

\* JSON bodies a successful response can carry ("null" is the JSON null)
Payloads == {"null", "d1", "d2"}

\* values a rejected call can throw: Error objects with a message, as
\* fetchWithErrorHandling produces, and a value that is not an Error
Thrown == {[isError |-> TRUE, message |-> "Network error"],
           [isError |-> TRUE, message |-> "HTTP 500: Internal Server Error"],
           [isError |-> FALSE, message |-> ""]}

\* reading a property of a JSON null throws a TypeError
TypeErrorThrown == [isError |-> TRUE, message |-> "Cannot read properties of null"]

Hooks == {"useDashboardData", "useFileUpload", "useRiskDetection", "useAlerts"}

OpsOf(h) ==
    CASE h = "useDashboardData" -> {"fetchDashboardData"}
      [] h = "useFileUpload"    -> {"uploadFiles", "clearUploadData"}
      [] h = "useRiskDetection" -> {"runRiskDetection", "getStudentDetails"}
      [] h = "useAlerts"        -> {"sendEmailAlert", "sendSMSAlert",
                                    "sendBulkAlerts", "getAlertsHistory"}

\* the text used when the thrown value is not an Error
DefaultMessage(op) ==
    CASE op = "fetchDashboardData" -> "Failed to fetch dashboard data"
      [] op = "uploadFiles"        -> "Failed to upload files"
      [] op = "clearUploadData"    -> "Failed to clear data"
      [] op = "runRiskDetection"   -> "Failed to run risk detection"
      [] op = "getStudentDetails"  -> "Failed to get student details"
      [] op = "sendEmailAlert"     -> "Failed to send email alert"
      [] op = "sendSMSAlert"       -> "Failed to send SMS alert"
      [] op = "sendBulkAlerts"     -> "Failed to send bulk alerts"
      [] op = "getAlertsHistory"   -> "Failed to get alerts history"

\* error instanceof Error ? error.message : '<default>'
ErrorMessage(op, thrown) ==
    IF thrown.isError THEN thrown.message ELSE DefaultMessage(op)

\* useState<ApiState<T>>({data: null, loading: false, error: null})
InitialApiState == [data |-> NULL, loading |-> FALSE, error |-> NULL]

\* mutant: starting a call drops the data held
StartState_dropData(prev) == [data |-> NULL, loading |-> TRUE, error |-> NULL]

\* mutant: starting a call keeps the error held
StartState_keepError(prev) == [prev EXCEPT !.loading = TRUE]

\* setState(prev => ({ ...prev, loading: true, error: null }))
StartState(prev) == [prev EXCEPT !.loading = TRUE, !.error = NULL]

\* mutant: the first response wins, a later one does not replace held data
SuccessState_keepHeld(op, payload) ==
    [data |-> IF state.data # NULL THEN state.data ELSE payload,
     loading |-> FALSE, error |-> NULL]

\* setState({ data, loading: false, error: null }); clearUploadData stores
\* data: null whatever the response body was
SuccessState(op, payload) ==
    [data |-> IF op = "clearUploadData" THEN NULL ELSE payload,
     loading |-> FALSE, error |-> NULL]

\* mutant: the catch block forgets to clear loading
FailureState_loadingStuck(op, prev, thrown) ==
    IF op = "clearUploadData"
    THEN [prev EXCEPT !.error = ErrorMessage(op, thrown)]
    ELSE [data |-> NULL, loading |-> prev.loading, error |-> ErrorMessage(op, thrown)]

\* mutant: every catch block keeps the data held before (stale data)
FailureState_keepData(op, prev, thrown) ==
    [prev EXCEPT !.loading = FALSE, !.error = ErrorMessage(op, thrown)]

\* setState({ data: null, loading: false, error: errorMessage }), except
\* clearUploadData: setState(prev => ({ ...prev, loading: false, error }))
FailureState(op, prev, thrown) ==
    IF op = "clearUploadData"
    THEN [prev EXCEPT !.loading = FALSE, !.error = ErrorMessage(op, thrown)]
    ELSE [data |-> NULL, loading |-> FALSE, error |-> ErrorMessage(op, thrown)]

\* operations whose success path reads a property of data after setState
ReadsData(op) ==
    op \in {"runRiskDetection", "sendEmailAlert", "sendSMSAlert", "sendBulkAlerts"}

\* operations that show a success toast
SuccessToast(op, payload) ==
    CASE op = "uploadFiles"      -> TRUE
      [] op = "clearUploadData"  -> TRUE
      [] op = "runRiskDetection" -> payload = "d1"   \* data.risk_summary present
      [] op \in {"sendEmailAlert", "sendSMSAlert", "sendBulkAlerts"} -> TRUE
      [] OTHER -> FALSE

\* operations that rethrow to the caller after handling the failure
Rethrows(op) == op # "clearUploadData"

Toast(kind, op, msg, call) == [kind |-> kind, op |-> op, msg |-> msg, call |-> call]

----------------------------------------------------------------------------
(* How a backend call can resolve *)

NoThrow == [isError |-> FALSE, message |-> "none"]

Fulfilled(p) == [ok |-> TRUE, payload |-> p, thrown |-> NoThrow]
Rejected(t) == [ok |-> FALSE, payload |-> NULL, thrown |-> t]

Outcomes == {Fulfilled(p) : p \in Payloads} \cup {Rejected(t) : t \in Thrown}

NoCall == [id |-> 0, op |-> "none", caller |-> "none"]
NoLast == [call |-> NoCall, outcome |-> Rejected(NoThrow), prev |-> InitialApiState]

\* the call ends in the catch block: the promise rejected, or the success
\* path threw while reading a property of a null body
Failed(op, o) == ~o.ok \/ (ReadsData(op) /\ o.payload = NULL)

\* the value the catch block receives
Caught(op, o) == IF o.ok THEN TypeErrorThrown ELSE o.thrown

\* the ApiState after the call's try/catch has run
ResolvedState(op, prev, o) ==
    IF ~o.ok THEN FailureState(op, prev, o.thrown)
    ELSE IF ReadsData(op) /\ o.payload = NULL
         THEN FailureState(op, SuccessState(op, o.payload), TypeErrorThrown)
         ELSE SuccessState(op, o.payload)

\* the toasts of the Dashboard code that awaits the call: loadData warns when
\* the call rethrows, handleRefreshData reports success when it returns
CallerToasts(c, o) ==
    IF c.caller = "mount" /\ Failed(c.op, o) /\ Rethrows(c.op)
    THEN <<Toast("warning", "loadData", "Unable to connect to backend. Showing demo data.", c.id)>>
    ELSE IF c.caller = "refresh" /\ ~Failed(c.op, o)
         THEN <<Toast("success", "handleRefreshData", "Dashboard data refreshed successfully!", c.id)>>
         ELSE <<>>

\* the toasts the call's try/catch shows
ResolvedToasts(c, o) ==
    IF Failed(c.op, o)
    THEN <<Toast("error", c.op, ErrorMessage(c.op, Caught(c.op, o)), c.id)>>
    ELSE IF SuccessToast(c.op, o.payload)
         THEN <<Toast("success", c.op, "done", c.id)>>
         ELSE <<>>


----------------------------------------------------------------------------
(* Students *)

\* a numeric id, kept as its decimal digits
Num(digits) == [type |-> "number", digits |-> digits]

\* String(s.id)
String(id) == [id EXCEPT !.type = "string"]

\* const mockStudents: Student[]
mockStudents == <<
    [id |-> Num(<<"1">>), name |-> <<"P", "r", "i", "y", "a", " ", "S", "h", "a", "r", "m", "a">>,
     class |-> <<"1", "0", "t", "h", " ", "A">>, department |-> "Science",
     attendance |-> 45, score |-> 62, feeStatus |-> "Overdue",
     riskScore |-> 85, riskLevel |-> "high", lastUpdated |-> "2024-01-15"],
    [id |-> Num(<<"2">>), name |-> <<"R", "a", "j", " ", "K", "u", "m", "a", "r">>,
     class |-> <<"1", "2", "t", "h", " ", "B">>, department |-> "Commerce",
     attendance |-> 78, score |-> 45, feeStatus |-> "Paid",
     riskScore |-> 60, riskLevel |-> "medium", lastUpdated |-> "2024-01-15"],
    [id |-> Num(<<"3">>), name |-> <<"A", "n", "i", "t", "a", " ", "S", "i", "n", "g", "h">>,
     class |-> <<"1", "1", "t", "h", " ", "A">>, department |-> "Arts",
     attendance |-> 92, score |-> 88, feeStatus |-> "Paid",
     riskScore |-> 15, riskLevel |-> "low", lastUpdated |-> "2024-01-15"] >>

\* students a backend can deliver besides the ones above
stuPriyaK ==
    [id |-> Num(<<"4">>), name |-> <<"p", "r", "i", "y", "a", " ", "K">>,
     class |-> <<"9", "t", "h", " ", "B">>, department |-> "Science",
     attendance |-> 50, score |-> 70, feeStatus |-> "Paid",
     riskScore |-> 85, riskLevel |-> "high", lastUpdated |-> "2024-01-15"]
stuAl ==
    [id |-> Num(<<"5">>), name |-> <<"A", "l">>,
     class |-> <<"1", "0", "t", "h", " ", "B">>, department |-> "Arts",
     attendance |-> 70, score |-> 58, feeStatus |-> "Late",
     riskScore |-> 60, riskLevel |-> "medium", lastUpdated |-> "2024-01-15"]
stuRAJ ==
    [id |-> Num(<<"6">>), name |-> <<"R", "A", "J">>,
     class |-> <<"1", "2", "t", "h", " ", "A">>, department |-> "Commerce",
     attendance |-> 95, score |-> 90, feeStatus |-> "Paid",
     riskScore |-> 15, riskLevel |-> "High", lastUpdated |-> "2024-01-15"]

\* response bodies of the dashboard endpoints: JSON null, a body without a
\* students field, and bodies with zero, one and two students
DashPayloads == {"null", "pX", "p0", "pA", "pB"}

HasStudentsField(p) == p \in {"p0", "pA", "pB"}

StudentsOf(p) ==
    CASE p = "pA" -> <<stuAl>>
      [] p = "pB" -> <<stuRAJ, stuPriyaK>>
      [] OTHER -> <<>>

DashOutcomes == {Fulfilled(p) : p \in DashPayloads} \cup {Rejected(t) : t \in Thrown}

----------------------------------------------------------------------------
(* The filter/sort pipeline of the Dashboard (both definitions) *)

\* the value "all" of the class Select
ALL == <<"a", "l", "l">>

UpperCase == <<"A", "B", "C", "D", "E", "F", "G", "H", "I", "J", "K", "L", "M", "N", "O", "P", "Q", "R", "S", "T", "U", "V", "W", "X", "Y", "Z">>
LowerCase == <<"a", "b", "c", "d", "e", "f", "g", "h", "i", "j", "k", "l", "m", "n", "o", "p", "q", "r", "s", "t", "u", "v", "w", "x", "y", "z">>

UpperSet == {UpperCase[k] : k \in DOMAIN UpperCase}

\* one character of String.prototype.toLowerCase
LowerChar(ch) ==
    IF ch \in UpperSet
    THEN LowerCase[CHOOSE k \in DOMAIN UpperCase : UpperCase[k] = ch]
    ELSE ch

RECURSIVE ToLowerCase(_)
\* String.prototype.toLowerCase
ToLowerCase(str) ==
    IF str = <<>> THEN <<>>
    ELSE <<LowerChar(Head(str))>> \o ToLowerCase(Tail(str))

\* str starts with needle at position from (1-based)
StartsAt(str, needle, from) ==
    /\ from + Len(needle) - 1 <= Len(str)
    /\ \A k \in 1..Len(needle) : str[from + k - 1] = needle[k]

RECURSIVE IndexFrom(_, _, _)
\* scan of String.prototype.includes: first position >= from where needle
\* occurs in str, 0 when there is none
IndexFrom(str, needle, from) ==
    IF from + Len(needle) - 1 > Len(str) THEN 0
    ELSE IF StartsAt(str, needle, from) THEN from
    ELSE IndexFrom(str, needle, from + 1)

\* String.prototype.includes
Includes(str, needle) == IndexFrom(str, needle, 1) # 0

\* student.name.toLowerCase().includes(searchTerm.toLowerCase()) ||
\* student.class.toLowerCase().includes(searchTerm.toLowerCase())
MatchesSearch(student, term) ==
    \/ Includes(ToLowerCase(student.name), ToLowerCase(term))
    \/ Includes(ToLowerCase(student.class), ToLowerCase(term))

\* mutant: the class must equal the selected value
MatchesClass_equal(student, cf) == cf = ALL \/ student.class = cf

\* classFilter === 'all' || student.class.includes(classFilter)
MatchesClass(student, cf) == cf = ALL \/ Includes(student.class, cf)

\* riskFilter === 'all' || student.riskLevel === riskFilter
MatchesRisk(student, rf) == rf = "all" \/ student.riskLevel = rf

\* mutant: the comparator of an ascending order
Compare_ascending(a, b) == a.riskScore - b.riskScore

\* the comparator (a, b) => b.riskScore - a.riskScore
Compare(a, b) == b.riskScore - a.riskScore

RECURSIVE InsertSorted_unstable(_, _)
\* mutant: an element goes before the elements it ties with
InsertSorted_unstable(x, sorted) ==
    IF sorted = <<>> THEN <<x>>
    ELSE IF Compare(x, Head(sorted)) <= 0 THEN <<x>> \o sorted
    ELSE <<Head(sorted)>> \o InsertSorted_unstable(x, Tail(sorted))

RECURSIVE InsertSorted(_, _)
\* x, which comes after all of sorted in the input, is placed before the
\* first element the comparator puts it strictly before
InsertSorted(x, sorted) ==
    IF sorted = <<>> THEN <<x>>
    ELSE IF Compare(x, Head(sorted)) < 0 THEN <<x>> \o sorted
    ELSE <<Head(sorted)>> \o InsertSorted(x, Tail(sorted))

RECURSIVE Sort(_)
\* Array.prototype.sort with Compare: a stable sort (ECMAScript 2019)
Sort(list) ==
    IF list = <<>> THEN <<>>
    ELSE InsertSorted(list[Len(list)], Sort(SubSeq(list, 1, Len(list) - 1)))

\* const filteredStudents = students.filter(..).filter(..).filter(..).sort(..)
FilteredStudents(list, term, cf, rf) ==
    LET bySearch == SelectSeq(list, LAMBDA st : MatchesSearch(st, term))
        byClass == SelectSeq(bySearch, LAMBDA st : MatchesClass(st, cf))
        byRisk == SelectSeq(byClass, LAMBDA st : MatchesRisk(st, rf))
    IN Sort(byRisk)

\* students.filter(s => s.riskLevel === level).length
CountLevel(list, level) == Len(SelectSeq(list, LAMBDA st : st.riskLevel = level))

\* mutant: every student that is not high counts as medium
RiskStats_mediumNotHigh(list) ==
    [high |-> CountLevel(list, "high"),
     medium |-> Len(list) - CountLevel(list, "high"),
     low |-> CountLevel(list, "low")]

\* const riskStats = { high: ..., medium: ..., low: ... }
RiskStats(list) ==
    [high |-> CountLevel(list, "high"),
     medium |-> CountLevel(list, "medium"),
     low |-> CountLevel(list, "low")]

\* mutant: the cards count the rows of the table
ShownStats_filtered == RiskStats(filteredStudents)

\* the numbers of the High Risk, Medium Risk and Safe Zone cards
ShownStats == RiskStats(students)

\* the number of the Total Students card: {students.length}
ShownTotal == Len(students)

\* students a collection under test is drawn from
Pool == {mockStudents[1], mockStudents[2], mockStudents[3], stuPriyaK, stuAl, stuRAJ}

\* collections of distinct students, up to MaxStudents long
Collections ==
    {list \in UNION {[1..n -> Pool] : n \in 0..MaxStudents} :
        \A i, j \in DOMAIN list : i # j => list[i] # list[j]}

\* texts typed into the search box
SearchTerms == {<<>>, <<"p", "r", "i">>, <<"R", "A", "J">>, <<"t", "h", " ", "B">>}

\* values of the class Select
ClassFilters == {ALL, <<"9", "t", "h">>, <<"1", "0", "t", "h">>, <<"1", "1", "t", "h">>, <<"1", "2", "t", "h">>}

\* values of the risk Select
RiskFilters == {"all", "high", "medium", "low"}

\* mutant: sort() is called on students itself
StudentsAfterRender_sortedInPlace(list) == Sort(list)

\* the students array after a render: filter() returns a new array, and it
\* is that array that sort() reorders in place
StudentsAfterRender(list) == list

\* onChange of the search Input, and the render that follows
SetSearchTerm(term) ==
    /\ searchTerm' = term
    /\ filteredStudents' = FilteredStudents(students, term, classFilter, riskFilter)
    /\ students' = StudentsAfterRender(students)
    /\ UNCHANGED <<hookVars, variant, mounted, loading2, error2, clicks, classFilter, riskFilter>>
    /\ UNCHANGED pageVars

\* onValueChange of the class Select, and the render that follows
SetClassFilter(cf) ==
    /\ classFilter' = cf
    /\ filteredStudents' = FilteredStudents(students, searchTerm, cf, riskFilter)
    /\ students' = StudentsAfterRender(students)
    /\ UNCHANGED <<hookVars, variant, mounted, loading2, error2, clicks, searchTerm, riskFilter>>
    /\ UNCHANGED pageVars

\* onValueChange of the risk Select, and the render that follows
SetRiskFilter(rf) ==
    /\ riskFilter' = rf
    /\ filteredStudents' = FilteredStudents(students, searchTerm, classFilter, rf)
    /\ students' = StudentsAfterRender(students)
    /\ UNCHANGED <<hookVars, variant, mounted, loading2, error2, clicks, searchTerm, classFilter>>
    /\ UNCHANGED pageVars

\* a Dashboard holding any collection a fetch can have delivered, with the
\* query untouched and the first render done
InitFilter ==
    /\ hook = "useDashboardData"
    /\ state = InitialApiState
    /\ pending = {}
    /\ issued = 0
    /\ toasts = <<>>
    /\ last = NoLast
    /\ variant = 1
    /\ mounted = TRUE
    /\ students \in Collections
    /\ loading2 = FALSE
    /\ error2 = FALSE
    /\ clicks = 0
    /\ searchTerm = <<>>
    /\ classFilter = ALL
    /\ riskFilter = "all"
    /\ filteredStudents = FilteredStudents(students, <<>>, ALL, "all")
    /\ RiskIdle /\ ActionsIdle /\ ClockIdle /\ UploadIdle /\ FetchIdle

NextFilter ==
    \/ \E term \in SearchTerms : SetSearchTerm(term)
    \/ \E cf \in ClassFilters : SetClassFilter(cf)
    \/ \E rf \in RiskFilters : SetRiskFilter(rf)

SpecFilter == InitFilter /\ [][NextFilter]_vars

----------------------------------------------------------------------------
(* The request hooks, one instance *)

\* an operation of the hook is called: loading is set, then the request goes out
HookCall(op, caller) ==
    /\ op \in OpsOf(hook)
    /\ state' = StartState(state)
    /\ issued' = issued + 1
    /\ pending' = pending \cup {[id |-> issued + 1, op |-> op, caller |-> caller]}
    /\ UNCHANGED <<hook, toasts, last>>

\* mutant: a failed request is sent again by the hook itself
HookResolve_retry(c, o) ==
    /\ c \in pending
    /\ state' = ResolvedState(c.op, state, o)
    /\ pending' = IF Failed(c.op, o) /\ issued < MaxFetches
                  THEN (pending \ {c}) \cup {[c EXCEPT !.id = issued + 1]}
                  ELSE pending \ {c}
    /\ issued' = IF Failed(c.op, o) /\ issued < MaxFetches THEN issued + 1 ELSE issued
    /\ toasts' = toasts \o ResolvedToasts(c, o) \o CallerToasts(c, o)
    /\ last' = [call |-> c, outcome |-> o, prev |-> state]
    /\ UNCHANGED hook

\* the request of call c resolves with outcome o and the rest of the
\* operation (try or catch) runs
HookResolve(c, o) ==
    /\ c \in pending
    /\ state' = ResolvedState(c.op, state, o)
    /\ pending' = pending \ {c}
    /\ toasts' = toasts \o ResolvedToasts(c, o) \o CallerToasts(c, o)
    /\ last' = [call |-> c, outcome |-> o, prev |-> state]
    /\ UNCHANGED <<hook, issued>>

Call ==
    /\ issued < MaxCalls
    /\ \E op \in OpsOf(hook) : HookCall(op, "user")
    /\ UNCHANGED <<dashVars, queryVars>>
    /\ UNCHANGED pageVars

Resolve ==
    /\ \E c \in pending, o \in Outcomes : HookResolve(c, o)
    /\ UNCHANGED <<dashVars, queryVars>>
    /\ UNCHANGED pageVars

InitHooks ==
    /\ hook \in Hooks
    /\ state = InitialApiState
    /\ pending = {}
    /\ issued = 0
    /\ toasts = <<>>
    /\ last = NoLast
    /\ variant = 0
    /\ mounted = FALSE
    /\ students = <<>>
    /\ loading2 = FALSE
    /\ error2 = FALSE
    /\ clicks = 0
    /\ searchTerm = <<>>
    /\ classFilter = ALL
    /\ riskFilter = "all"
    /\ filteredStudents = <<>>
    /\ RiskIdle /\ ActionsIdle /\ ClockIdle /\ UploadIdle /\ FetchIdle

NextHooks == Call \/ Resolve

SpecHooks == InitHooks /\ [][NextHooks]_vars

----------------------------------------------------------------------------
(* The Dashboard page, first definition (useDashboardData) *)

\* useEffect on [dashboardData, loading]: take the fetched students when
\* there are some, else the mock data unless a call is loading
StudentsEffect(st, cur) ==
    IF HasStudentsField(st.data) /\ Len(StudentsOf(st.data)) > 0
    THEN StudentsOf(st.data)
    ELSE IF ~st.loading THEN mockStudents ELSE cur

\* the render after a state change recomputes the visible subset
Render == filteredStudents' = FilteredStudents(students', searchTerm', classFilter', riskFilter')

\* mutant: the Refresh button is never disabled
RefreshDisabled_never == FALSE

\* disabled={loading} of the Refresh button, in either definition
RefreshDisabled == IF variant = 1 THEN state.loading ELSE loading2

\* mount effect: loadData() awaits fetchDashboardData()
Mount1 ==
    /\ variant = 1
    /\ ~mounted
    /\ issued < MaxFetches
    /\ HookCall("fetchDashboardData", "mount")
    /\ mounted' = TRUE
    /\ students' = StudentsEffect(state', students)
    /\ UNCHANGED <<variant, loading2, error2, clicks, searchTerm, classFilter, riskFilter>>
    /\ Render
    /\ UNCHANGED pageVars

\* handleRefreshData, behind the Refresh button (disabled={loading})
Refresh1 ==
    /\ variant = 1
    /\ mounted
    /\ ~RefreshDisabled
    /\ issued < MaxFetches
    /\ HookCall("fetchDashboardData", "refresh")
    /\ clicks' = clicks + 1
    /\ students' = StudentsEffect(state', students)
    /\ UNCHANGED <<variant, mounted, loading2, error2, searchTerm, classFilter, riskFilter>>
    /\ Render
    /\ UNCHANGED pageVars

\* the dashboard request resolves; the hook, the awaiting handler and the
\* students effect run
Resolve1 ==
    /\ variant = 1
    /\ \E c \in pending, o \in DashOutcomes :
          /\ HookResolve(c, o)
          /\ students' = StudentsEffect(state', students)
    /\ UNCHANGED <<variant, mounted, loading2, error2, clicks, searchTerm, classFilter, riskFilter>>
    /\ Render
    /\ UNCHANGED pageVars

----------------------------------------------------------------------------
(* The Dashboard page, second definition (fetchStudents) *)

\* data.students.map(s => ({...s, id: String(s.id)}))
FormatStudents(list) == [i \in DOMAIN list |-> [list[i] EXCEPT !.id = String(list[i].id)]]

\* fetchStudents up to the await: setLoading(true), then fetch(...)
FetchStudents(caller) ==
    /\ issued < MaxFetches
    /\ loading2' = TRUE
    /\ issued' = issued + 1
    /\ pending' = pending \cup {[id |-> issued + 1, op |-> "fetchStudents", caller |-> caller]}
    /\ UNCHANGED <<hook, state, toasts, last, variant, students, error2, queryVars>>
    /\ UNCHANGED pageVars

\* useEffect(() => { fetchStudents(); }, [])
Mount2 ==
    /\ variant = 2
    /\ ~mounted
    /\ FetchStudents("mount")
    /\ mounted' = TRUE
    /\ UNCHANGED clicks

\* the Refresh button (disabled={loading})
Refresh2 ==
    /\ variant = 2
    /\ mounted
    /\ ~RefreshDisabled
    /\ FetchStudents("refresh")
    /\ clicks' = clicks + 1
    /\ UNCHANGED mounted

\* fetchStudents reaches its catch block: fetch rejected, !res.ok, res.json()
\* rejected, or data.students is not there to map
Failed2(o) == ~o.ok \/ ~HasStudentsField(o.payload)

\* the students fetchStudents leaves: the fetched ones, or none on failure
StudentsAfterFetch(o) ==
    IF Failed2(o) THEN <<>> ELSE FormatStudents(StudentsOf(o.payload))

\* fetchStudents from the await on: try or catch, then finally
Resolve2 ==
    /\ variant = 2
    /\ \E c \in pending, o \in DashOutcomes :
          /\ pending' = pending \ {c}
          /\ students' = StudentsAfterFetch(o)
          /\ error2' = Failed2(o)
          /\ toasts' = IF Failed2(o)
                       THEN Append(toasts, Toast("warning", c.op, "Unable to fetch API. Showing empty dashboard.", c.id))
                       ELSE toasts
          /\ loading2' = FALSE
          /\ last' = [call |-> c, outcome |-> o, prev |-> state]
    /\ UNCHANGED <<hook, state, issued, variant, mounted, clicks, searchTerm, classFilter, riskFilter>>
    /\ Render
    /\ UNCHANGED pageVars

InitDash ==
    /\ variant \in {1, 2}
    /\ hook = "useDashboardData"
    /\ state = InitialApiState
    /\ pending = {}
    /\ issued = 0
    /\ toasts = <<>>
    /\ last = NoLast
    /\ mounted = FALSE
    /\ students = IF variant = 1 THEN mockStudents ELSE <<>>
    /\ loading2 = FALSE
    /\ error2 = FALSE
    /\ clicks = 0
    /\ searchTerm = <<>>
    /\ classFilter = ALL
    /\ riskFilter = "all"
    /\ filteredStudents = FilteredStudents(students, <<>>, ALL, "all")
    /\ RiskIdle /\ ActionsIdle /\ ClockIdle /\ UploadIdle /\ FetchIdle

NextDash == Mount1 \/ Refresh1 \/ Resolve1 \/ Mount2 \/ Refresh2 \/ Resolve2

SpecDash == InitDash /\ [][NextDash]_vars

----------------------------------------------------------------------------
(* Request hooks: properties *)

\* this step issued a request
CallStep == issued' = issued + 1

\* this step resolved a call (ids are unique, so last changes on every resolution)
ResolveStep == last' # last

\* this step resolved a call through its catch block
FailedStep == ResolveStep /\ Failed(last'.call.op, last'.outcome)

\* C1: every operation sets loading to true in the step that issues the
\* request, and the step in which a call resolves sets loading to false, on
\* the success path and on the failure path alike.
C1_LoadingSetThenCleared ==
    [][/\ CallStep => (state'.loading = TRUE /\ Cardinality(pending') = Cardinality(pending) + 1)
       /\ ResolveStep => state'.loading = FALSE]_vars

\* a call has gone through its failure path and loading is false
C1_Witness ==
    /\ last.call # NoCall
    /\ Failed(last.call.op, last.outcome)
    /\ last.prev.loading = TRUE
    /\ state.loading = FALSE

\* C2: loading is true if and only if at least one call issued through the
\* hook has not resolved yet, also when calls overlap.
C2_LoadingIffPending == state.loading <=> pending # {}

\* C3 (as claimed): a failing call of any operation of any hook stores its
\* message in error and sets data to null, so data and error are never both
\* non-null.
C3_FailureAlwaysClearsData ==
    /\ [](~(state.data # NULL /\ state.error # NULL))
    /\ [][FailedStep =>
            /\ state'.error = ErrorMessage(last'.call.op, Caught(last'.call.op, last'.outcome))
            /\ state'.data = NULL]_vars

\* C3 (amended): a failing call stores its message in error and clears
\* loading; it sets data to null for every operation except clearUploadData,
\* whose failure keeps the data held before. Outside useFileUpload data and
\* error are never both non-null.
C3_FailureClearsDataExceptClear ==
    /\ [](hook # "useFileUpload" => ~(state.data # NULL /\ state.error # NULL))
    /\ [][FailedStep =>
            /\ state'.error = ErrorMessage(last'.call.op, Caught(last'.call.op, last'.outcome))
            /\ state'.error # NULL
            /\ state'.loading = FALSE
            /\ IF last'.call.op = "clearUploadData"
               THEN state'.data = state.data
               ELSE state'.data = NULL]_vars

\* a call other than clearUploadData failed while data was held, and the
\* data is gone
C3_Witness ==
    /\ last.call # NoCall
    /\ last.call.op # "clearUploadData"
    /\ Failed(last.call.op, last.outcome)
    /\ last.prev.data # NULL
    /\ state.data = NULL
    /\ state.error # NULL

\* the data a call delivers by itself: the response body on success (null
\* for clearUploadData), null on failure
OwnData(c, o) ==
    IF Failed(c.op, o) \/ c.op = "clearUploadData" THEN NULL ELSE o.payload

\* the error a call delivers by itself: its message on failure, else null
OwnError(c, o) ==
    IF Failed(c.op, o) THEN ErrorMessage(c.op, Caught(c.op, o)) ELSE NULL

\* C6 (as claimed): a response overwrites the whole state when it resolves,
\* so the state after a resolution is that of the resolved call alone,
\* whatever was issued or resolved before.
C6_ResponseOverwritesWholeState ==
    [][ResolveStep =>
         state' = [data |-> OwnData(last'.call, last'.outcome), loading |-> FALSE,
                   error |-> OwnError(last'.call, last'.outcome)]]_vars

\* C6 (amended): a response overwrites loading and error when it resolves,
\* and data too unless it is a failed clearUploadData, which keeps the data
\* held at that moment; no response is discarded because a later call was
\* issued or has already resolved.
C6_ResponseOverwritesState ==
    [][ResolveStep =>
         /\ state'.loading = FALSE
         /\ state'.error = OwnError(last'.call, last'.outcome)
         /\ IF last'.call.op = "clearUploadData" /\ Failed(last'.call.op, last'.outcome)
            THEN state'.data = state.data
            ELSE state'.data = OwnData(last'.call, last'.outcome)]_vars

\* the call issued first resolved after the call issued second, and the
\* hook holds the first call's result
C6_Witness ==
    /\ last.call.id = 1
    /\ issued >= 2
    /\ pending = {}
    /\ last.outcome.ok
    /\ last.outcome.payload # NULL
    /\ last.prev.data # NULL
    /\ last.prev.data # last.outcome.payload
    /\ state.data = last.outcome.payload

----------------------------------------------------------------------------
(* Dashboard: properties *)

\* the last dashboard request ended in the page's failure path
LastFetchFailed ==
    /\ last.call # NoCall
    /\ IF variant = 2 THEN Failed2(last.outcome) ELSE Failed(last.call.op, last.outcome)

\* C4: after a failed dashboard fetch (on mount or on refresh) the request
\* state is {data: null, loading: false, error: <message>} and the students
\* shown are the fallback dataset mockStudents, not an empty list.
C4_FailedFetchShowsFallback ==
    (LastFetchFailed /\ pending = {}) =>
        /\ students = mockStudents
        /\ variant = 1 =>
              state = [data |-> NULL, loading |-> FALSE,
                       error |-> ErrorMessage(last.call.op, last.outcome.thrown)]

\* C5: the student collection the Dashboard shows is never empty.
C5_StudentsNeverEmpty == mounted => Len(students) > 0

\* C7: requests are issued only by the mount effect (once) and by Refresh
\* clicks (one each); nothing re-issues a request after a failure.
C7_NoAutomaticReissue ==
    /\ issued = (IF mounted THEN 1 ELSE 0) + clicks
    /\ (LastFetchFailed /\ ~(variant = 1 /\ state.loading) /\ ~(variant = 2 /\ loading2))
          => pending = {}

\* the mount request failed and was followed by no other request
C7_Witness ==
    /\ LastFetchFailed
    /\ last.call.caller = "mount"
    /\ issued = 1
    /\ clicks = 0
    /\ pending = {}

\* notifications other than success shown for call id
FailureToasts(id) ==
    {i \in DOMAIN toasts : toasts[i].call = id /\ toasts[i].kind # "success"}

\* C8: a failed dashboard request, on mount or on refresh, is surfaced by
\* exactly one notification.
C8_FailureSurfacedOnce ==
    LastFetchFailed => Cardinality(FailureToasts(last.call.id)) = 1

----------------------------------------------------------------------------
(* Filter/sort pipeline: properties *)

\* needle occurs in str as a contiguous run of characters
IsSubstring(needle, str) ==
    \E i \in 0..Len(str) : \E j \in i..Len(str) : SubSeq(str, i + 1, j) = needle

\* needle occurs in str when the case of letters is ignored
IsSubstringIgnoringCase(needle, str) ==
    \E i \in 0..Len(str) : \E j \in i..Len(str) :
        /\ j - i = Len(needle)
        /\ \A k \in 1..Len(needle) : LowerChar(str[i + k]) = LowerChar(needle[k])

\* the three conditions of the query
SatisfiesQuery(st) ==
    /\ IsSubstringIgnoringCase(searchTerm, st.name) \/ IsSubstringIgnoringCase(searchTerm, st.class)
    /\ classFilter = ALL \/ IsSubstring(classFilter, st.class)
    /\ riskFilter = "all" \/ st.riskLevel = riskFilter

Range(list) == {list[i] : i \in DOMAIN list}

\* C9: the visible subset holds exactly the students that satisfy the text,
\* class and risk conditions of the query, each of them once.
C9_VisibleSubsetIsExact ==
    /\ Range(filteredStudents) = {st \in Range(students) : SatisfiesQuery(st)}
    /\ \A i, j \in DOMAIN filteredStudents : i # j => filteredStudents[i] # filteredStudents[j]

\* all three filters are set, the text differs in case from what it matches,
\* and the query keeps some students and drops others
C9_Witness ==
    /\ searchTerm # <<>>
    /\ classFilter # ALL
    /\ riskFilter # "all"
    /\ filteredStudents # <<>>
    /\ Len(filteredStudents) < Len(students)
    /\ \E i \in DOMAIN filteredStudents :
          /\ ~IsSubstring(searchTerm, filteredStudents[i].name)
          /\ ~IsSubstring(searchTerm, filteredStudents[i].class)
          /\ filteredStudents[i].class # classFilter

\* position of a student in the collection held by the Dashboard
PositionIn(list, st) == CHOOSE k \in DOMAIN list : list[k] = st

\* C10: the visible subset is in descending riskScore order and students
\* with equal riskScore keep the relative order they have in the collection.
C10_DescendingAndStable ==
    \A i, j \in DOMAIN filteredStudents :
        i < j =>
          /\ filteredStudents[i].riskScore >= filteredStudents[j].riskScore
          /\ filteredStudents[i].riskScore = filteredStudents[j].riskScore
                => PositionIn(students, filteredStudents[i]) < PositionIn(students, filteredStudents[j])

\* the sort moved a student forward, and two visible students tie
C10_Witness ==
    /\ Len(filteredStudents) = 3
    /\ filteredStudents # students
    /\ \E i \in DOMAIN filteredStudents :
          /\ i < Len(filteredStudents)
          /\ filteredStudents[i].riskScore = filteredStudents[i + 1].riskScore
    /\ \E i \in DOMAIN filteredStudents :
          /\ i < Len(filteredStudents)
          /\ filteredStudents[i].riskScore > filteredStudents[i + 1].riskScore
          /\ PositionIn(students, filteredStudents[i]) > PositionIn(students, filteredStudents[i + 1])

----------------------------------------------------------------------------
(* Pipeline and statistics: properties *)

\* C11: applying the filter/sort pipeline to its own output with the same
\* query gives the same sequence as applying it once.
C11_PipelineIdempotent ==
    FilteredStudents(filteredStudents, searchTerm, classFilter, riskFilter) = filteredStudents

\* the pipeline dropped a student and two of the visible students tie on
\* riskScore
C11_Witness ==
    /\ Len(filteredStudents) >= 2
    /\ Len(filteredStudents) < Len(students)
    /\ \E i \in DOMAIN filteredStudents :
          /\ i < Len(filteredStudents)
          /\ filteredStudents[i].riskScore = filteredStudents[i + 1].riskScore

\* C12: the per-level counts add up to the number of students held,
\* whatever riskLevel values the students carry.
C12_CountsSumToTotal ==
    ShownStats.high + ShownStats.medium + ShownStats.low = ShownTotal

\* number of students of a list with the given level
LevelCount(list, level) == Cardinality({i \in DOMAIN list : list[i].riskLevel = level})

\* C13 (as claimed): the total and the per-level counts shown are those of
\* the visible subset.
C13_StatsOverVisibleSubset ==
    /\ ShownTotal = Len(filteredStudents)
    /\ ShownStats.high = LevelCount(filteredStudents, "high")
    /\ ShownStats.medium = LevelCount(filteredStudents, "medium")
    /\ ShownStats.low = LevelCount(filteredStudents, "low")

\* C13 (amended): the total and the per-level counts shown are those of the
\* whole collection held, whatever the query; they are those of the visible
\* subset when the query passes every student.
C13_StatsOverWholeCollection ==
    /\ ShownTotal = Len(students)
    /\ ShownStats.high = LevelCount(students, "high")
    /\ ShownStats.medium = LevelCount(students, "medium")
    /\ ShownStats.low = LevelCount(students, "low")
    /\ Len(filteredStudents) = Len(students) => C13_StatsOverVisibleSubset

\* a risk filter hides a student that the cards still count
C13_Witness ==
    /\ riskFilter = "high"
    /\ Len(filteredStudents) < Len(students)
    /\ ShownStats.medium + ShownStats.low > 0
    /\ LevelCount(filteredStudents, "medium") + LevelCount(filteredStudents, "low") = 0

----------------------------------------------------------------------------
(* The risk rule evaluator of the backend (utils/risk_rules.py) *)

\* most billing periods a fee is overdue in the records assessed
MaxOverdue == 3

\* attendance and score percentages on and around the thresholds
Attendances == {45, 59, 60, 74, 75, 92}
Scores == {39, 40, 59, 60, 88}
FeeStatuses == {"Paid", "Overdue", "Late"}

\* a paid fee is not overdue; an unpaid one is overdue by 0..MaxOverdue periods
OverduePeriods(feeStatus) == IF feeStatus = "Paid" THEN {0} ELSE 0..MaxOverdue

Records ==
    {[attendance |-> a, score |-> sc, feeStatus |-> fs, overdue |-> od] :
        a \in Attendances, sc \in Scores, fs \in FeeStatuses, od \in 0..MaxOverdue}

StudentRecords == {r \in Records : r.overdue \in OverduePeriods(r.feeStatus)}

\* the rules with the attendance boundary taken inclusively
RiskLevel_inclusive(r) ==
    IF r.attendance <= 60 \/ r.score < 40 \/ r.overdue > 2 THEN "high"
    ELSE IF r.attendance < 75 \/ r.score < 60 \/ r.overdue > 1 THEN "medium"
    ELSE "low"

\* ORed thresholds, evaluated high-to-low, first match wins
RiskLevel(r) ==
    IF r.attendance < 60 \/ r.score < 40 \/ r.overdue > 2 THEN "high"
    ELSE IF r.attendance < 75 \/ r.score < 60 \/ r.overdue > 1 THEN "medium"
    ELSE "low"

Assess(r) == [riskLevel |-> RiskLevel(r)]

\* ingestion or re-ingestion of a record: the assessment is not stored
Ingest(r) ==
    /\ record' = r
    /\ assessment' = NoAssessment
    /\ UNCHANGED <<hookVars, dashVars, queryVars, actionVars, clockVars, uploadVars, fetchVars>>

\* a read of the record recomputes its assessment
ReadAssessment ==
    /\ record # NoRecord
    /\ assessment' = Assess(record)
    /\ UNCHANGED <<record, hookVars, dashVars, queryVars, actionVars, clockVars, uploadVars, fetchVars>>

\* no Dashboard is mounted and no request was issued
DashboardIdle ==
    /\ hook = "useDashboardData"
    /\ state = InitialApiState
    /\ pending = {}
    /\ issued = 0
    /\ toasts = <<>>
    /\ last = NoLast
    /\ variant = 0
    /\ mounted = FALSE
    /\ students = <<>>
    /\ loading2 = FALSE
    /\ error2 = FALSE
    /\ clicks = 0
    /\ searchTerm = <<>>
    /\ classFilter = ALL
    /\ riskFilter = "all"
    /\ filteredStudents = <<>>

InitRisk == DashboardIdle /\ RiskIdle /\ ActionsIdle /\ ClockIdle /\ UploadIdle /\ FetchIdle

NextRisk == (\E r \in StudentRecords : Ingest(r)) \/ ReadAssessment

SpecRisk == InitRisk /\ [][NextRisk]_vars

----------------------------------------------------------------------------
(* Risk rule evaluator: properties *)

Assessed == assessment # NoAssessment

\* the thresholds of the rules, case by case
ThresholdsHold ==
    Assessed =>
        /\ (record.attendance < 60 \/ record.score < 40) => assessment.riskLevel = "high"
        /\ (record.attendance = 60 /\ record.score >= 40 /\ record.overdue <= 2)
              => assessment.riskLevel # "high"
        /\ (/\ ~(record.attendance < 60 \/ record.score < 40 \/ record.overdue > 2)
            /\ (record.attendance < 75 \/ record.score < 60))
              => assessment.riskLevel = "medium"
        /\ (record.attendance >= 75 /\ record.score >= 60 /\ record.feeStatus = "Paid")
              => assessment.riskLevel = "low"

\* two reads of one record give one level
SameRecordSameLevel ==
    (record' = record /\ Assessed /\ Assessed') => assessment'.riskLevel = assessment.riskLevel

----------------------------------------------------------------------------
(* The fallback dataset: properties *)

\* the raw metrics of a student, as a record of the rule evaluator
RecordsOf(st) ==
    {[attendance |-> st.attendance, score |-> st.score, feeStatus |-> st.feeStatus,
      overdue |-> od] : od \in OverduePeriods(st.feeStatus)}

\* C15: when the Dashboard holds its fallback dataset (45/62/Overdue,
\* 78/45/Paid, 92/88/Paid), the three levels are high, medium and low in
\* that order, they are the levels the threshold rules give, and the
\* per-level counts shown are {high: 1, medium: 1, low: 1}.
C15_FallbackScenario ==
    students = mockStudents =>
        /\ [i \in 1..3 |-> <<students[i].attendance, students[i].score, students[i].feeStatus>>]
              = <<<<45, 62, "Overdue">>, <<78, 45, "Paid">>, <<92, 88, "Paid">>>>
        /\ [i \in 1..3 |-> students[i].riskLevel] = <<"high", "medium", "low">>
        /\ \A i \in 1..3 : \A r \in RecordsOf(students[i]) : RiskLevel(r) = students[i].riskLevel
        /\ ShownStats = [high |-> 1, medium |-> 1, low |-> 1]

\* the first Dashboard shows the fallback dataset after a failed fetch
C15_Witness ==
    /\ variant = 1
    /\ mounted
    /\ LastFetchFailed
    /\ students = mockStudents

----------------------------------------------------------------------------
(* Risk scores and the order of the visible list: properties *)

----------------------------------------------------------------------------
(* The Actions page *)

\* most actions the list holds
MaxActions == 5

\* completedAt?, notes?: the field is absent
UNDEFINED == "undefined"

\* const initialActions: Action[]
initialActions == <<
    [id |-> "1", studentName |-> "Priya Sharma", studentClass |-> "10th A",
     actionType |-> "counseling", status |-> "pending",
     description |-> "Schedule counseling session for declining attendance and grades",
     assignedTo |-> "Mrs. Gupta", createdAt |-> "2024-01-15",
     completedAt |-> UNDEFINED, notes |-> UNDEFINED],
    [id |-> "2", studentName |-> "Raj Kumar", studentClass |-> "12th B",
     actionType |-> "parent_call", status |-> "in_progress",
     description |-> "Contact parents about academic performance concerns",
     assignedTo |-> "Mr. Singh", createdAt |-> "2024-01-14",
     completedAt |-> UNDEFINED, notes |-> UNDEFINED],
    [id |-> "3", studentName |-> "Arjun Patel", studentClass |-> "9th C",
     actionType |-> "meeting", status |-> "completed",
     description |-> "Parent-teacher meeting conducted",
     assignedTo |-> "Ms. Reddy", createdAt |-> "2024-01-13",
     completedAt |-> "2024-01-15",
     notes |-> "Parents committed to supervising homework. Follow up in 2 weeks."] >>

\* the option picked in the Action Type select: the one the form starts
\* with (the type of an action only picks the icon it is shown with)
ActionTypes == {"counseling"}

\* the status filter buttons
StatusFilters == {"all", "pending", "in_progress", "completed"}

\* texts typed into the inputs of the add dialog
NameTexts == {"", "Asha Rao"}
DescriptionTexts == {"", "Call home"}
AssigneeTexts == {"", "Mr. Das"}

\* texts left in the completion notes textarea
NoteTexts == {"", "Spoke to the parents"}

\* new Date().toISOString().split('T')[0]: the day the millisecond lies in
ISODate(ms) == "2024-01-" \o ToString(16 + (ms \div 4))

\* actions.filter(action => filter === 'all' || action.status === filter)
filteredActions == SelectSeq(actions, LAMBDA a : filter = "all" \/ a.status = filter)

\* onClick={() => setFilter(status)}
SetFilter(status) ==
    /\ filter' = status
    /\ UNCHANGED <<actions, showAddDialog, newAction, notice>>
    /\ UNCHANGED <<hookVars, dashVars, queryVars, riskVars, clockVars, uploadVars, fetchVars>>

\* onOpenChange={setShowAddDialog} and the Cancel button
SetShowAddDialog(open) ==
    /\ showAddDialog' = open
    /\ UNCHANGED <<actions, filter, newAction, notice>>
    /\ UNCHANGED <<hookVars, dashVars, queryVars, riskVars, clockVars, uploadVars, fetchVars>>

\* the onChange handlers of the add dialog: setNewAction(prev => ({...prev, [field]: value}))
SetField(field, value) ==
    /\ showAddDialog
    /\ newAction' = [newAction EXCEPT ![field] = value]
    /\ UNCHANGED <<actions, filter, showAddDialog, notice>>
    /\ UNCHANGED <<hookVars, dashVars, queryVars, riskVars, clockVars, uploadVars, fetchVars>>

\* mutant: only the student name is required
FormIncomplete_nameOnly == newAction.studentName = ""

\* !newAction.studentName || !newAction.description || !newAction.assignedTo
FormIncomplete ==
    newAction.studentName = "" \/ newAction.description = "" \/ newAction.assignedTo = ""

\* the action addNewAction builds at millisecond ms
NewAction(ms) ==
    [id |-> ToString(ms), studentName |-> newAction.studentName, studentClass |-> "10th A",
     actionType |-> newAction.actionType, status |-> "pending",
     description |-> newAction.description, assignedTo |-> newAction.assignedTo,
     createdAt |-> ISODate(ms), completedAt |-> UNDEFINED, notes |-> UNDEFINED]

\* mutant: the new action goes to the end of the list
Prepend_atEnd(action, prev) == Append(prev, action)

\* [action, ...prev]
Prepend(action, prev) == <<action>> \o prev

\* addNewAction, from the Create Action button of the add dialog
AddNewAction ==
    /\ showAddDialog
    /\ IF FormIncomplete
       THEN /\ notice' = "error: Please fill in all required fields"
            /\ UNCHANGED <<actions, filter, showAddDialog, newAction, clockVars>>
       ELSE /\ Len(actions) < MaxActions
            /\ actions' = Prepend(NewAction(clock), actions)
            /\ newAction' = EmptyForm
            /\ showAddDialog' = FALSE
            /\ notice' = "success: New action created successfully!"
            /\ UNCHANGED <<filter, clockVars>>
    /\ UNCHANGED <<hookVars, dashVars, queryVars, riskVars, uploadVars, fetchVars>>

\* mutant: the action is moved to in_progress
Completed_inProgress(action, date, notes) ==
    [action EXCEPT !.status = "in_progress", !.completedAt = date, !.notes = notes]

\* { ...action, status: 'completed', completedAt: <today>, notes }
Completed(action, date, notes) ==
    [action EXCEPT !.status = "completed", !.completedAt = date, !.notes = notes]

\* markActionCompleted(actionId, notes)
MarkActionCompleted(actionId, notes) ==
    /\ actions' = [i \in DOMAIN actions |->
                      IF actions[i].id = actionId
                      THEN Completed(actions[i], ISODate(clock), notes)
                      ELSE actions[i]]
    /\ notice' = "success: Great job! Action completed successfully."
    /\ UNCHANGED <<filter, showAddDialog, newAction, clockVars>>
    /\ UNCHANGED <<hookVars, dashVars, queryVars, riskVars, uploadVars, fetchVars>>

\* the Complete Action button, rendered for the visible actions that are
\* not completed, with the notes of the textarea || ''
CompleteAction ==
    \E i \in DOMAIN filteredActions : \E notes \in NoteTexts :
        /\ filteredActions[i].status # "completed"
        /\ MarkActionCompleted(filteredActions[i].id, notes)

\* the clock moves on to the next millisecond; a millisecond in which no
\* id was made is not told apart from the one before it
TickActions ==
    /\ \E i \in DOMAIN actions : actions[i].id = ToString(clock)
    /\ clock' = clock + 1
    /\ UNCHANGED actionVars
    /\ UNCHANGED <<hookVars, dashVars, queryVars, riskVars, uploadVars, fetchVars>>

InitActions ==
    /\ DashboardIdle /\ RiskIdle /\ UploadIdle /\ FetchIdle
    /\ actions = initialActions
    /\ filter = "all"
    /\ showAddDialog = FALSE
    /\ newAction = EmptyForm
    /\ notice = "none"
    /\ clock = 20

NextActions ==
    \/ \E status \in StatusFilters : SetFilter(status)
    \/ \E open \in BOOLEAN : SetShowAddDialog(open)
    \/ \E value \in NameTexts : SetField("studentName", value)
    \/ \E value \in ActionTypes : SetField("actionType", value)
    \/ \E value \in DescriptionTexts : SetField("description", value)
    \/ \E value \in AssigneeTexts : SetField("assignedTo", value)
    \/ AddNewAction
    \/ CompleteAction
    \/ TickActions

SpecActions == InitActions /\ [][NextActions]_vars

----------------------------------------------------------------------------
(* Actions page: properties *)

\* the place in actions' of the action at place i of actions: new actions
\* go to the front
Later(i) == i + Len(actions') - Len(actions)

\* the actions of actions' that actions does not have
Added == 1..(Len(actions') - Len(actions))

\* C17 (as claimed): a status changes only from pending to in_progress or
\* from in_progress to completed.
C17_StatusFollowsOrder ==
    [][\A i \in DOMAIN actions :
          actions'[Later(i)].status # actions[i].status =>
              <<actions[i].status, actions'[Later(i)].status>>
                  \in {<<"pending", "in_progress">>, <<"in_progress", "completed">>}]_vars

\* C17 (amended): a status never moves backwards: a new action starts as
\* pending, and the only status change is to completed, from in_progress or
\* directly from pending; nothing moves an action to in_progress.
C17_StatusOnlyToCompleted ==
    [][/\ \A i \in DOMAIN actions :
             actions'[Later(i)].status # actions[i].status =>
                 /\ actions[i].status \in {"pending", "in_progress"}
                 /\ actions'[Later(i)].status = "completed"
       /\ \A k \in Added : actions'[k].status = "pending"]_vars

\* an action made by addNewAction was completed, and so were the pending
\* and the in_progress action of initialActions
C17_Witness ==
    /\ Len(actions) > Len(initialActions)
    /\ \A i \in DOMAIN actions : actions[i].status = "completed"

\* C20: addNewAction with studentName, description and assignedTo filled in
\* puts exactly one action before the others, pending and without
\* completedAt, keeps the others and their order, resets the form and
\* closes the add dialog.
C20_AddPrependsOnePending ==
    [][(AddNewAction /\ ~FormIncomplete) =>
          /\ Len(actions') = Len(actions) + 1
          /\ actions'[1].status = "pending"
          /\ actions'[1].completedAt = UNDEFINED
          /\ actions'[1].studentName = newAction.studentName
          /\ actions'[1].description = newAction.description
          /\ actions'[1].assignedTo = newAction.assignedTo
          /\ actions'[1].actionType = newAction.actionType
          /\ Tail(actions') = actions
          /\ newAction' = EmptyForm
          /\ showAddDialog' = FALSE]_vars

\* an action was added for the student named in the form, to a list in
\* which an action had been completed since the page was opened
C20_Witness ==
    /\ Len(actions) = Len(initialActions) + 1
    /\ actions[1].studentName = "Asha Rao"
    /\ actions[1].status = "pending"
    /\ Tail(actions) # initialActions
    /\ newAction = EmptyForm
    /\ ~showAddDialog
    /\ notice = "success: New action created successfully!"

----------------------------------------------------------------------------
(* The Upload page *)

\* most files the list holds
MaxFiles == 2

\* values of Math.random() * 20, a number in [0, 20)
Increments == {0, 19}

Min(a, b) == IF a <= b THEN a ELSE b

\* `${Date.now()}-${index}`, index counted from 0
FileId(ms, index) == ToString(ms) \o "-" \o ToString(index)

\* the files handleFiles makes of a FileList of n files (name and type are
\* display fields that no operation reads)
NewFiles(n, ms) ==
    [k \in 1..n |-> [id |-> FileId(ms, k - 1), status |-> "pending", progress |-> 0]]

\* the timeouts handleFiles sets: simulateUpload(file.id) after index * 500
NewTimers(n, ms) ==
    [k \in 1..n |-> [fileId |-> FileId(ms, k - 1), ms |-> ms, delay |-> (k - 1) * 500,
                     phase |-> "scheduled", progress |-> 0, ticked |-> FALSE]]

\* the clock can still show the millisecond of the timers set in it: none
\* of them had a delay or a period to wait for
SameMillisecond ==
    \A t \in DOMAIN timers :
        timers[t].ms = clock =>
            \/ timers[t].phase = "scheduled"
            \/ timers[t].phase = "running" /\ timers[t].delay = 0 /\ ~timers[t].ticked

\* handleFiles(fileList), from the file input or a drop
HandleFiles(n) ==
    /\ Len(files) + n <= MaxFiles
    /\ SameMillisecond
    /\ files' = files \o NewFiles(n, clock)
    /\ timers' = timers \o NewTimers(n, clock)
    /\ UNCHANGED <<toasts, clock>>
    /\ UNCHANGED <<hook, state, pending, issued, last, dashVars, queryVars, riskVars, actionVars, fetchVars>>

\* prev.map(file => file.id === fileId ? { ...file, status } : file)
WithStatus(list, fileId, status) ==
    [i \in DOMAIN list |->
        IF list[i].id = fileId THEN [list[i] EXCEPT !.status = status] ELSE list[i]]

\* prev.map(file => file.id === fileId ? { ...file, progress } : file)
WithProgress(list, fileId, progress) ==
    [i \in DOMAIN list |->
        IF list[i].id = fileId THEN [list[i] EXCEPT !.progress = progress] ELSE list[i]]

\* mutant: the interval is cleared one increment early
PhaseAfter_clearedEarly(progress) == IF progress >= 100 - 19 THEN "cleared" ELSE "running"

\* clearInterval(interval) once progress >= 100
PhaseAfter(progress) == IF progress >= 100 THEN "cleared" ELSE "running"

\* the timeout of timer t fires: simulateUpload(fileId) up to setInterval
StartUpload(t) ==
    /\ t \in DOMAIN timers
    /\ timers[t].phase = "scheduled"
    /\ files' = WithStatus(files, timers[t].fileId, "uploading")
    /\ timers' = [timers EXCEPT ![t].phase = "running"]
    /\ UNCHANGED <<toasts, clock>>
    /\ UNCHANGED <<hook, state, pending, issued, last, dashVars, queryVars, riskVars, actionVars, fetchVars>>

\* the interval of timer t fires with Math.random() * 20 = inc; timers set
\* in the same millisecond with the same delay have all fired their timeout
IntervalTick(t, inc) ==
    /\ t \in DOMAIN timers
    /\ timers[t].phase = "running"
    /\ \A u \in DOMAIN timers :
          timers[u].fileId = timers[t].fileId => timers[u].phase # "scheduled"
    /\ LET progress == timers[t].progress + inc
           shown == WithProgress(files, timers[t].fileId, Min(progress, 100))
       IN  /\ timers' = [timers EXCEPT ![t].progress = progress,
                                       ![t].ticked = TRUE,
                                       ![t].phase = PhaseAfter(progress)]
           /\ IF progress >= 100
              THEN /\ files' = WithProgress(WithStatus(shown, timers[t].fileId, "success"),
                                            timers[t].fileId, 100)
                   /\ toasts' = Append(toasts, Toast("success", "simulateUpload",
                                                     "File uploaded successfully!", timers[t].fileId))
              ELSE /\ files' = shown
                   /\ toasts' = toasts
    /\ UNCHANGED clock
    /\ UNCHANGED <<hook, state, pending, issued, last, dashVars, queryVars, riskVars, actionVars, fetchVars>>

\* files.length > 0 && files.every(file => file.status === 'success')
allFilesUploaded == Len(files) > 0 /\ \A i \in DOMAIN files : files[i].status = "success"

\* the clock moves on to the next millisecond; a millisecond in which no
\* id was made is not told apart from the one before it
TickUpload ==
    /\ \E t \in DOMAIN timers : timers[t].ms = clock
    /\ clock' = clock + 1
    /\ UNCHANGED <<toasts, uploadVars>>
    /\ UNCHANGED <<hook, state, pending, issued, last, dashVars, queryVars, riskVars, actionVars, fetchVars>>

InitUpload ==
    /\ DashboardIdle /\ RiskIdle /\ ActionsIdle /\ FetchIdle
    /\ files = <<>>
    /\ timers = <<>>
    /\ clock = 20

NextUpload ==
    \/ \E n \in 1..MaxFiles : HandleFiles(n)
    \/ \E t \in 1..MaxFiles : StartUpload(t)
    \/ \E t \in 1..MaxFiles : \E inc \in Increments : IntervalTick(t, inc)
    \/ TickUpload

SpecUpload == InitUpload /\ [][NextUpload]_vars

\* timers keep firing, and Math.random() is positive again and again
UploadFairness ==
    \A t \in 1..MaxFiles :
        /\ WF_vars(StartUpload(t))
        /\ WF_vars(\E inc \in Increments \ {0} : IntervalTick(t, inc))

SpecUploadFair == SpecUpload /\ UploadFairness

----------------------------------------------------------------------------
(* Upload page: properties *)

\* the file at place p is uploaded: success, progress 100, and every
\* interval on its id is cleared
Uploaded(p) ==
    /\ p \in DOMAIN files
    /\ files[p].status = "success"
    /\ files[p].progress = 100
    /\ \A t \in DOMAIN timers : timers[t].fileId = files[p].id => timers[t].phase = "cleared"

\* C18: when timers keep firing and the increments are positive again and
\* again, every file handleFiles added is eventually uploaded (success,
\* progress 100, interval cleared), and a list that is not empty eventually
\* satisfies allFilesUploaded.
C18_EveryUploadTerminates ==
    /\ \A p \in 1..MaxFiles : (p \in DOMAIN files) ~> Uploaded(p)
    /\ (files # <<>>) ~> allFilesUploaded

\* two batches were added, the second while the first was uploading, and
\* all files are uploaded
C18_Witness ==
    /\ Len(files) = MaxFiles
    /\ files[1].id # files[Len(files)].id
    /\ timers[1].ticked
    /\ timers[Len(timers)].ms # timers[1].ms
    /\ allFilesUploaded
    /\ \A p \in DOMAIN files : Uploaded(p)

\* the success toasts for the file at place i
SuccessToasts(i) == {k \in DOMAIN toasts : toasts[k].call = files[i].id}

\* a file is in success with progress 100 and one toast, or not in success
\* with no toast; progress is at most 100
CompletedOnce ==
    \A i \in DOMAIN files :
        /\ files[i].progress <= 100
        /\ files[i].status = "success" => files[i].progress = 100
        /\ Cardinality(SuccessToasts(i)) = IF files[i].status = "success" THEN 1 ELSE 0

\* a file in success is left as it is
SuccessIsFinal ==
    \A i \in DOMAIN files : files[i].status = "success" => files'[i] = files[i]

\* C19: a file reaches success once, with one success toast; progress never
\* exceeds 100; a file in success has progress 100 and neither its status
\* nor its progress changes again, however the handleFiles calls fall.
C19_CompletesExactlyOnce == []CompletedOnce /\ [][SuccessIsFinal]_vars

----------------------------------------------------------------------------
(* Actions page: the effect of markActionCompleted *)

\* the fields markActionCompleted does not set
KeptFields(a) ==
    <<a.id, a.studentName, a.studentClass, a.actionType, a.description, a.assignedTo, a.createdAt>>

\* C21: markActionCompleted(actionId, notes), called for the action the
\* Complete Action button belongs to, sets status completed, completedAt to
\* the current date and notes to the given notes on that action, keeps its
\* other fields, and leaves every other action, the order and length of the
\* list, the status filter and the student records as they are.
C21_MarkSetsOnlyThatAction ==
    [][\A k \in DOMAIN actions : \A notes \in NoteTexts :
          MarkActionCompleted(actions[k].id, notes) =>
              /\ Len(actions') = Len(actions)
              /\ \A i \in DOMAIN actions :
                    IF i = k
                    THEN /\ actions'[i].status = "completed"
                         /\ actions'[i].completedAt = ISODate(clock)
                         /\ actions'[i].notes = notes
                         /\ KeptFields(actions'[i]) = KeptFields(actions[i])
                    ELSE actions'[i] = actions[i]
              /\ filter' = filter
              /\ <<students, filteredStudents, record, assessment>>'
                    = <<students, filteredStudents, record, assessment>>]_vars

----------------------------------------------------------------------------
(* ApiService.fetchWithErrorHandling *)

\* endpoints the methods of ApiService pass
Endpoints == {"/get-dashboard-data", "/risk-detection", "/send-alerts",
              "/upload-status", "/clear-data", "/health"}

\* status and statusText of the responses
StatusLines == {<<200, "OK">>, <<404, "Not Found">>, <<500, "Internal Server Error">>}

\* response bodies: one that is not JSON, and the JSON texts null, {},
\* {"message": ""}, {"message": "Student not found"} and []
TextBody == "<html>"
JsonBodies == {"null", "{}", "{message:''}", "{message:'Student not found'}", "[]"}
Bodies == {TextBody} \cup JsonBodies

\* what fetch(url, ...) settles with: a rejection with a TypeError, or a
\* Response
FailedToFetch == [isError |-> TRUE, message |-> "Failed to fetch"]

Responses ==
    {[arrived |-> FALSE, error |-> FailedToFetch, status |-> 0, statusText |-> "", body |-> TextBody]}
    \cup {[arrived |-> TRUE, error |-> NoThrow, status |-> sl[1], statusText |-> sl[2], body |-> b] :
            sl \in StatusLines, b \in Bodies}

\* response.ok
Ok(r) == r.status >= 200 /\ r.status <= 299

\* the SyntaxError response.json() rejects with for a body that is not JSON
SyntaxErrorThrown == [isError |-> TRUE, message |-> "Unexpected token < in JSON"]

\* new Error(message)
Error(message) == [isError |-> TRUE, message |-> message]

\* the message property of a parsed body other than null; "" stands for a
\* falsy one, undefined included
MessageOf(value) == IF value = "{message:'Student not found'}" THEN "Student not found" ELSE ""

\* `HTTP ${response.status}: ${response.statusText}`
HttpMessage(r) == "HTTP " \o ToString(r.status) \o ": " \o r.statusText

\* the block under if (!response.ok)
ErrorOutcome(r) ==
    IF r.body = TextBody
    THEN Rejected(Error("Network error"))   \* .catch(() => ({ message: 'Network error' }))
    ELSE IF r.body = "null"
         THEN Rejected(TypeErrorThrown)     \* errorData.message with errorData null
         ELSE IF MessageOf(r.body) # ""
              THEN Rejected(Error(MessageOf(r.body)))
              ELSE Rejected(Error(HttpMessage(r)))

\* what the call settles with; the catch block rethrows what it caught
FetchOutcome(r) ==
    IF ~r.arrived THEN Rejected(r.error)
    ELSE IF ~Ok(r) THEN ErrorOutcome(r)
    ELSE IF r.body = TextBody THEN Rejected(SyntaxErrorThrown)
    ELSE Fulfilled(r.body)

\* fetchWithErrorHandling(endpoint) with the response r; a rejection is
\* logged by console.error before it is rethrown
FetchWithErrorHandling(endpoint, r) ==
    /\ fetched' = [endpoint |-> endpoint, response |-> r, outcome |-> FetchOutcome(r),
                   logged |-> ~FetchOutcome(r).ok]
    /\ UNCHANGED <<hookVars, dashVars, queryVars, riskVars, actionVars, clockVars, uploadVars>>

InitFetch ==
    DashboardIdle /\ RiskIdle /\ ActionsIdle /\ ClockIdle /\ UploadIdle /\ FetchIdle

NextFetch == \E endpoint \in Endpoints : \E r \in Responses : FetchWithErrorHandling(endpoint, r)

SpecFetch == InitFetch /\ [][NextFetch]_vars

----------------------------------------------------------------------------
(* fetchWithErrorHandling: properties *)

Called == fetched # NoFetch

\* the body is JSON that carries a message
HasMessage(body) == body \in JsonBodies /\ body # "null" /\ MessageOf(body) # ""

\* the call failed: no response, a non-success status, or a success body
\* that does not parse
FetchFailure(r) == ~r.arrived \/ ~Ok(r) \/ r.body = TextBody

\* every failure is thrown as an Error and nothing is returned; a failure
\* of fetch or of parsing a success body is rethrown as it is; a
\* non-success status with a message in its JSON body throws that message,
\* with a body that is not JSON throws "Network error"
FailureThrown(r, o) ==
    /\ FetchFailure(r) => (~o.ok /\ o.payload = NULL /\ o.thrown.isError)
    /\ ~FetchFailure(r) => o = Fulfilled(r.body)
    /\ ~r.arrived => o.thrown = r.error
    /\ (r.arrived /\ Ok(r) /\ r.body = TextBody) => o.thrown = SyntaxErrorThrown
    /\ (r.arrived /\ ~Ok(r) /\ HasMessage(r.body)) => o.thrown = Error(MessageOf(r.body))
    /\ (r.arrived /\ ~Ok(r) /\ r.body = TextBody) => o.thrown = Error("Network error")

\* C22: fetchWithErrorHandling throws an Error on every failure and returns
\* nothing then: for a non-success status the server's message when the
\* body is JSON with a message, "HTTP <status>: <statusText>" when the JSON
\* body has no message, "Network error" when the body is not JSON; a
\* failure of the transport or of parsing a success body is rethrown as is.
C22_FailuresBecomeErrors ==
    Called =>
        /\ FailureThrown(fetched.response, fetched.outcome)
        /\ (/\ fetched.response.arrived
            /\ ~Ok(fetched.response)
            /\ fetched.response.body \in JsonBodies
            /\ ~HasMessage(fetched.response.body))
              => fetched.outcome.thrown = Error(HttpMessage(fetched.response))

----------------------------------------------------------------------------
(* Request hooks: loading and error *)

\* C23: in every state of every request hook loading = true implies
\* error = null: the step that starts a call clears the error, and a step
\* that stores an error stores loading = false with it.
C23_LoadingImpliesNoError ==
    /\ [](state.loading => state.error = NULL)
    /\ [][/\ CallStep => state'.error = NULL
          /\ (state'.error # NULL /\ state'.error # state.error) => ~state'.loading]_vars

\* a call was started after a failure had left an error, and the error is
\* gone while the call is pending
C23_Witness ==
    /\ last.call # NoCall
    /\ Failed(last.call.op, last.outcome)
    /\ pending # {}
    /\ \A c \in pending : c.id > last.call.id
    /\ state.loading
    /\ state.error = NULL

----------------------------------------------------------------------------
(* Dashboard: fetches in flight *)

\* this step is a click on the Refresh button
RefreshStep == clicks' = clicks + 1

\* C24: the Dashboard has at most one dashboard fetch in flight: the
\* Refresh button is disabled while loading, so a refresh starts only when
\* the mount fetch and every earlier refresh have resolved, and no two
\* responses can arrive out of order.
C24_OneFetchInFlight ==
    /\ [](Cardinality(pending) <= 1)
    /\ [][RefreshStep => (pending = {} /\ Cardinality(pending') = 1)]_vars

\* a refresh is in flight after the mount fetch has resolved
C24_Witness ==
    /\ mounted
    /\ clicks >= 1
    /\ last.call # NoCall
    /\ \E c \in pending : c.caller = "refresh" /\ c.id > last.call.id

----------------------------------------------------------------------------
(* Dashboard: a refresh in flight *)

\* the last dashboard request went through the page's success path
LastFetchSucceeded == last.call # NoCall /\ ~LastFetchFailed

\* the students the page shows for the outcome of a successful fetch
ShownFor(o) ==
    IF variant = 2 THEN StudentsAfterFetch(o)
    ELSE IF HasStudentsField(o.payload) /\ Len(StudentsOf(o.payload)) > 0
         THEN StudentsOf(o.payload)
         ELSE mockStudents

\* C25: a refresh that starts after a successful fetch changes only loading
\* and error of the hook state, which keeps the fetched data, and the
\* Dashboard goes on showing the same students while the refresh is in
\* flight; the students shown change only in a step that resolves a fetch.
C25_RefreshKeepsDataUntilResolved ==
    /\ [][(RefreshStep /\ LastFetchSucceeded) =>
             /\ students' = students
             /\ variant = 1 => state' = [state EXCEPT !.loading = TRUE, !.error = NULL]]_vars
    /\ []((LastFetchSucceeded /\ pending # {}) =>
             /\ students = ShownFor(last.outcome)
             /\ variant = 1 => state.data = last.outcome.payload)
    /\ [][students' # students => ResolveStep]_vars

\* the first Dashboard shows fetched students while a refresh is in flight
C25_Witness ==
    /\ variant = 1
    /\ LastFetchSucceeded
    /\ \E c \in pending : c.caller = "refresh"
    /\ state.data # NULL
    /\ state.loading
    /\ students # mockStudents
    /\ students = StudentsOf(state.data)

----------------------------------------------------------------------------
(* Actions page: validation and ids *)

\* one of the three required fields of the form is empty
SomeFieldEmpty ==
    \E field \in {"studentName", "description", "assignedTo"} : newAction[field] = ""

\* C26: addNewAction with studentName, description or assignedTo empty shows
\* an error toast and changes nothing: the list, the form and the open
\* state of the add dialog stay as they are.
C26_IncompleteFormRejected ==
    [][(AddNewAction /\ SomeFieldEmpty) =>
          /\ notice' = "error: Please fill in all required fields"
          /\ actions' = actions
          /\ newAction' = newAction
          /\ showAddDialog' = showAddDialog]_vars

\* the form was rejected with the name and the assignee filled in and the
\* description empty; the dialog is open and the list is the initial one
C26_Witness ==
    /\ notice = "error: Please fill in all required fields"
    /\ showAddDialog
    /\ newAction.studentName # ""
    /\ newAction.assignedTo # ""
    /\ newAction.description = ""
    /\ actions = initialActions

----------------------------------------------------------------------------
(* Upload page: file ids *)

\* the files a timer addresses
FilesOf(t) == {i \in DOMAIN files : files[i].id = timers[t].fileId}

\* C29: the ids of the files in the list are pairwise distinct across all
\* handleFiles batches, so each upload timer addresses exactly one file.
C29_FileIdsDistinct ==
    /\ \A i, j \in DOMAIN files : i # j => files[i].id # files[j].id
    /\ \A t \in DOMAIN timers : Cardinality(FilesOf(t)) = 1

----------------------------------------------------------------------------
(* Filter/sort pipeline: the collection it reads *)

\* C30: computing the visible subset leaves the students the Dashboard
\* holds as they are: whatever the query changes and renders, students has
\* the same elements in the same order as the fetch or the fallback
\* dataset delivered; the descending sort reorders a filtered copy only.
C30_RenderKeepsStudents == [][students' = students]_vars

\* after a query change the visible list shows two students in the
\* opposite order to the one they have in students
C30_Witness ==
    /\ searchTerm # <<>>
    /\ \E i, j \in DOMAIN filteredStudents :
          /\ i < j
          /\ PositionIn(students, filteredStudents[i]) > PositionIn(students, filteredStudents[j])

----------------------------------------------------------------------------
(* Actions page: ids, and completed actions *)

\* no two actions of the list have the same id
ActionIdsDistinct ==
    \A i, j \in DOMAIN actions : i # j => actions[i].id # actions[j].id

\* the places of the list whose action a step changes
ChangedPlaces == {i \in DOMAIN actions : actions'[Later(i)] # actions[i]}

\* C27: in every reachable state the ids of the actions are pairwise
\* distinct, and a step of the Complete Action button (which calls
\* markActionCompleted) changes exactly one action.
C27_DistinctIdsMarkChangesOne ==
    /\ []ActionIdsDistinct
    /\ [][CompleteAction => Cardinality(ChangedPlaces) = 1]_vars

\* actions.filter(a => a.status === 'completed').length
completedCount == Cardinality({i \in DOMAIN actions : actions[i].status = "completed"})

\* C28: completed is absorbing: an action that is completed keeps status
\* completed, its completedAt and its notes in every later state; the
\* completed count and the length of the list never decrease.
C28_CompletedIsAbsorbing ==
    [][/\ \A i \in DOMAIN actions :
             actions[i].status = "completed" =>
                 /\ actions'[Later(i)].status = "completed"
                 /\ actions'[Later(i)].completedAt = actions[i].completedAt
                 /\ actions'[Later(i)].notes = actions[i].notes
       /\ completedCount' >= completedCount
       /\ Len(actions') >= Len(actions)]_vars

====
